---- MODULE Spec2Model ----
(***************************************************************************)
(* A model of the rate limiting library serroba/rate: the five limiters    *)
(* (bucket.TokenLimiter, bucket.LeakyLimiter, bucket.GCRALimiter,          *)
(* window.FixedLimiter, window.SlidingLimiter) and the per-key Registry.   *)
(*                                                                         *)
(* Time.  An instant is an integer number of clock ticks since the Unix    *)
(* epoch and a duration an integer number of ticks; one second is          *)
(* TicksPerSecond ticks (time.Second nanoseconds in the source).           *)
(*                                                                         *)
(* Reals.  tokens and level are float64 in the source.  The model stores   *)
(* them multiplied by TicksPerSecond, so that                              *)
(*     tokens + elapsed.Seconds() * rate                                   *)
(* becomes  tokens + elapsedTicks * rate  on integers, and  tokens >= 1    *)
(* becomes  tokens >= TicksPerSecond.  This is the arithmetic of the       *)
(* source wherever the float64 operations are exact.                       *)
(***************************************************************************)
EXTENDS Integers, Sequences, FiniteSets, TLC

\* ------------------------------------------------------------ bounds
TicksPerSecond == 2
MaxCapacity == 2
MaxRate == 2
MaxWindow == 3
MaxTime == 4
MaxPast == 1
MaxCalls == 4
NThreads == 3
NKeys == 2
MaxConcCalls == 4
UintBits == 2

MinTime == 0 - MaxPast
Times == MinTime..MaxTime

\* ------------------------------------------------------------ helpers
Min(a, b) == IF a <= b THEN a ELSE b
Max(a, b) == IF a >= b THEN a ELSE b

\* Go's integer division, which truncates toward zero (b > 0).
GoDiv(a, b) == IF a >= 0 THEN a \div b ELSE 0 - ((0 - a) \div b)

\* ------------------------------------------------------------ TokenLimiter
\* mutant: a bucket that starts empty
NewLimiterWithClock_Empty(capacity, rate, now) ==
    [kind |-> "token", capacity |-> capacity, rate |-> rate,
     tokens |-> 0, lastRefillAt |-> now]

NewLimiterWithClock(capacity, rate, now) ==
    [kind |-> "token", capacity |-> capacity, rate |-> rate,
     tokens |-> capacity * TicksPerSecond, lastRefillAt |-> now]

\* mutants of refill: a refill that does not saturate at capacity, one that
\* leaves the timestamp behind, one without the backward-clock test, one that
\* forgets the rate
refill_Uncapped(lim, t) ==
    IF t < lim.lastRefillAt
      THEN lim
      ELSE [lim EXCEPT
              !.tokens = lim.tokens + (t - lim.lastRefillAt) * lim.rate,
              !.lastRefillAt = t]

refill_KeepsTimestamp(lim, t) ==
    IF t < lim.lastRefillAt
      THEN lim
      ELSE [lim EXCEPT
              !.tokens = Min(lim.capacity * TicksPerSecond,
                             lim.tokens + (t - lim.lastRefillAt) * lim.rate)]

refill_NoBackwardTest(lim, t) ==
    [lim EXCEPT
       !.tokens = Min(lim.capacity * TicksPerSecond,
                      lim.tokens + (t - lim.lastRefillAt) * lim.rate),
       !.lastRefillAt = t]

refill_ForgetsRate(lim, t) ==
    IF t < lim.lastRefillAt
      THEN lim
      ELSE [lim EXCEPT
              !.tokens = Min(lim.capacity * TicksPerSecond,
                             lim.tokens + (t - lim.lastRefillAt)),
              !.lastRefillAt = t]

refill(lim, t) ==
    IF t < lim.lastRefillAt
      THEN lim
      ELSE [lim EXCEPT
              !.tokens = Min(lim.capacity * TicksPerSecond,
                             lim.tokens + (t - lim.lastRefillAt) * lim.rate),
              !.lastRefillAt = t]

\* mutant: a denied call keeps the new timestamp but not the refilled tokens
TokenLimiter_Allow_DropsCreditOnDenial(lim, t) ==
    LET r == refill(lim, t)
    IN IF r.tokens >= TicksPerSecond
         THEN [lim |-> [r EXCEPT !.tokens = r.tokens - TicksPerSecond], ok |-> TRUE]
         ELSE [lim |-> [r EXCEPT !.tokens = lim.tokens], ok |-> FALSE]

TokenLimiter_Allow(lim, t) ==
    LET r == refill(lim, t)
    IN IF r.tokens >= TicksPerSecond
         THEN [lim |-> [r EXCEPT !.tokens = r.tokens - TicksPerSecond], ok |-> TRUE]
         ELSE [lim |-> r, ok |-> FALSE]

\* ------------------------------------------------------------ LeakyLimiter
\* mutant: a bucket that starts full
NewLeakyLimiterWithClock_Full(capacity, rate, now) ==
    [kind |-> "leaky", capacity |-> capacity, rate |-> rate,
     level |-> capacity * TicksPerSecond, lastUpdatedAt |-> now]

NewLeakyLimiterWithClock(capacity, rate, now) ==
    [kind |-> "leaky", capacity |-> capacity, rate |-> rate,
     level |-> 0, lastUpdatedAt |-> now]

\* mutant: a drain that does not saturate at 0
update_NoFloor(lim, t) ==
    IF t < lim.lastUpdatedAt
      THEN lim
      ELSE [lim EXCEPT
              !.level = lim.level - (t - lim.lastUpdatedAt) * lim.rate,
              !.lastUpdatedAt = t]

update(lim, t) ==
    IF t < lim.lastUpdatedAt
      THEN lim
      ELSE [lim EXCEPT
              !.level = Max(0, lim.level - (t - lim.lastUpdatedAt) * lim.rate),
              !.lastUpdatedAt = t]

LeakyLimiter_Allow(lim, t) ==
    LET r == update(lim, t)
    IN IF r.level + TicksPerSecond <= r.capacity * TicksPerSecond
         THEN [lim |-> [r EXCEPT !.level = r.level + TicksPerSecond], ok |-> TRUE]
         ELSE [lim |-> r, ok |-> FALSE]

\* ------------------------------------------------------------ FixedLimiter
\* limit and count are uint32: UintBits bits wide here, arithmetic modulo
\* 2^UintBits, MaxUint32 the largest value (math.MaxUint32).
MaxUint32 == 2^UintBits - 1

Uint32(n) == n % (MaxUint32 + 1)

windowStart(now, window) == GoDiv(now, window) * window

NewFixedLimiterWithClock(limit, window, now) ==
    LET w == IF window = 0 THEN TicksPerSecond ELSE window
    IN [kind |-> "fixed", limit |-> limit, window |-> w, count |-> 0,
        start |-> windowStart(now, w)]

\* mutant: count <= limit in place of count+1 <= limit
FixedLimiter_Allow_AtLimit(l, now) ==
    LET ws == windowStart(now, l.window)
        r  == IF ws # l.start THEN [l EXCEPT !.start = ws, !.count = 0] ELSE l
    IN IF r.count <= r.limit
         THEN [lim |-> [r EXCEPT !.count = Uint32(r.count + 1)], ok |-> TRUE]
         ELSE [lim |-> r, ok |-> FALSE]

\* mutant: the counter is reset only when the window start moves forward
FixedLimiter_Allow_ResetsOnlyForward(l, now) ==
    LET ws == windowStart(now, l.window)
        r  == IF ws > l.start THEN [l EXCEPT !.start = ws, !.count = 0] ELSE l
    IN IF Uint32(r.count + 1) <= r.limit
         THEN [lim |-> [r EXCEPT !.count = Uint32(r.count + 1)], ok |-> TRUE]
         ELSE [lim |-> r, ok |-> FALSE]

\* if l.count+1 <= l.limit { l.count++; return true }, both on uint32
FixedLimiter_Allow(l, now) ==
    LET ws == windowStart(now, l.window)
        r  == IF ws # l.start THEN [l EXCEPT !.start = ws, !.count = 0] ELSE l
    IN IF Uint32(r.count + 1) <= r.limit
         THEN [lim |-> [r EXCEPT !.count = Uint32(r.count + 1)], ok |-> TRUE]
         ELSE [lim |-> r, ok |-> FALSE]

\* ------------------------------------------------------------ SlidingLimiter
NewSlidingLimiterWithClock(limit, duration, now) ==
    LET w == IF duration = 0 THEN TicksPerSecond ELSE duration
    IN [kind |-> "sliding", limit |-> limit, window |-> w, q |-> << >>, head |-> 0]

\* mutant: an entry equal to the cutoff is expired too
RECURSIVE expire_AtCutoff(_, _, _)
expire_AtCutoff(q, head, cutoff) ==
    IF head < Len(q) /\ q[head + 1] <= cutoff
      THEN expire_AtCutoff(q, head + 1, cutoff)
      ELSE head

\* for l.head < len(l.q) && l.q[l.head].Before(cutoff) { l.head++ }
\* (head is the 0-based index of the source; q[head + 1] here is q[head] there)
RECURSIVE expire(_, _, _)
expire(q, head, cutoff) ==
    IF head < Len(q) /\ q[head + 1] < cutoff
      THEN expire(q, head + 1, cutoff)
      ELSE head

\* mutant: a compaction that copies one entry too few
compact_DropsOne(l) ==
    IF l.head > 0 /\ l.head * 2 >= Len(l.q)
      THEN [l EXCEPT !.q = SubSeq(l.q, l.head + 2, Len(l.q)), !.head = 0]
      ELSE l

\* mutant: a compaction whose condition never holds
compact_Skipped(l) ==
    IF l.head > Len(l.q)
      THEN [l EXCEPT !.q = SubSeq(l.q, l.head + 1, Len(l.q)), !.head = 0]
      ELSE l

compact(l) ==
    IF l.head > 0 /\ l.head * 2 >= Len(l.q)
      THEN [l EXCEPT !.q = SubSeq(l.q, l.head + 1, Len(l.q)), !.head = 0]
      ELSE l

\* mutant: a denied request is recorded in the queue as well
SlidingLimiter_Allow_RecordsDenied(l, now) ==
    LET cutoff == now - l.window
        r == compact([l EXCEPT !.head = expire(l.q, l.head, cutoff)])
    IN [lim |-> [r EXCEPT !.q = Append(r.q, now)],
        ok |-> ~(Len(r.q) - r.head + 1 > r.limit)]

SlidingLimiter_Allow(l, now) ==
    LET cutoff == now - l.window
        r == compact([l EXCEPT !.head = expire(l.q, l.head, cutoff)])
    IN IF Len(r.q) - r.head + 1 > r.limit
         THEN [lim |-> r, ok |-> FALSE]
         ELSE [lim |-> [r EXCEPT !.q = Append(r.q, now)], ok |-> TRUE]

\* ------------------------------------------------------------ GCRALimiter
\* time.Time{}: the zero instant, before every clock reading.
ZeroTime == MinTime - 1

\* mutant: a rate <= 0 is replaced by one request per tick, not per second
NewGCRALimiterWithClock_OtherDefault(rate, burst) ==
    LET r == IF rate <= 0 THEN TicksPerSecond ELSE rate
        b == IF burst = 0 THEN 1 ELSE burst
        emission == GoDiv(TicksPerSecond, r)
    IN [kind |-> "gcra", tat |-> ZeroTime, emission |-> emission,
        limit |-> emission * b]

NewGCRALimiterWithClock(rate, burst) ==
    LET r == IF rate <= 0 THEN 1 ELSE rate
        b == IF burst = 0 THEN 1 ELSE burst
        emission == GoDiv(TicksPerSecond, r)
    IN [kind |-> "gcra", tat |-> ZeroTime, emission |-> emission,
        limit |-> emission * b]

\* mutant: the new TAT is counted from now, not from max(now, tat)
GCRALimiter_Allow_FromNow(l, now) ==
    LET newTAT  == now + l.emission
        allowAt == newTAT - l.limit
    IN IF allowAt > now
         THEN [lim |-> l, ok |-> FALSE]
         ELSE [lim |-> [l EXCEPT !.tat = newTAT], ok |-> TRUE]

\* mutant: tat advances on a denied call too
GCRALimiter_Allow_AdvancesOnDenial(l, now) ==
    LET newTAT  == (IF now > l.tat THEN now ELSE l.tat) + l.emission
        allowAt == newTAT - l.limit
    IN [lim |-> [l EXCEPT !.tat = newTAT], ok |-> ~(allowAt > now)]

\* mutant: the new TAT always counts from the old one, so idle time is
\* credited without bound
GCRALimiter_Allow_NoCap(l, now) ==
    LET newTAT  == l.tat + l.emission
        allowAt == newTAT - l.limit
    IN IF allowAt > now
         THEN [lim |-> l, ok |-> FALSE]
         ELSE [lim |-> [l EXCEPT !.tat = newTAT], ok |-> TRUE]

GCRALimiter_Allow(l, now) ==
    LET newTAT  == (IF now > l.tat THEN now ELSE l.tat) + l.emission
        allowAt == newTAT - l.limit
    IN IF allowAt > now
         THEN [lim |-> l, ok |-> FALSE]
         ELSE [lim |-> [l EXCEPT !.tat = newTAT], ok |-> TRUE]

\* ------------------------------------------------------------ Limiter interface
\* lim.Allow() on whichever limiter the caller holds, reading the clock as now.
Allow(lim, now) ==
    CASE lim.kind = "token"   -> TokenLimiter_Allow(lim, now)
      [] lim.kind = "leaky"   -> LeakyLimiter_Allow(lim, now)
      [] lim.kind = "fixed"   -> FixedLimiter_Allow(lim, now)
      [] lim.kind = "sliding" -> SlidingLimiter_Allow(lim, now)
      [] lim.kind = "gcra"    -> GCRALimiter_Allow(lim, now)

\* what Allow does to the limiter before it decides: refill, drain, window
\* reset, expiry and compaction; nothing for GCRA
BeforeDecision(l, now) ==
    CASE l.kind = "token"   -> refill(l, now)
      [] l.kind = "leaky"   -> update(l, now)
      [] l.kind = "fixed"   ->
            IF windowStart(now, l.window) # l.start
              THEN [l EXCEPT !.start = windowStart(now, l.window), !.count = 0]
              ELSE l
      [] l.kind = "sliding" ->
            compact([l EXCEPT !.head = expire(l.q, l.head, now - l.window)])
      [] l.kind = "gcra"    -> l

\* ------------------------------------------------------------ sync.Mutex
\* mu.Lock() returns only when no goroutine holds mu; holder 0 is "unlocked".
\* mutant: a Lock that does not wait
CanLock_NoWait(holder) == TRUE

CanLock(holder) == holder = 0

\* ------------------------------------------------------------ state
Threads == 1..NThreads
Keys == 1..NKeys
NoKey == 0

VARIABLES
    clock,     \* the reading the clock returns
    lim,       \* the limiter driven by a single caller
    born,      \* the clock reading at its construction
    hist,      \* its calls so far: [at, ok, pre], pre the limiter before the call
    cfg,       \* what the concurrent callers share: the fresh limiter, or the
               \* registry's capacity and rate
    heap,      \* the limiter objects allocated so far
    limMu,     \* limMu[o]: the goroutine holding limiter o's mutex, or 0
    regMu,     \* the goroutine holding the registry's mutex, or 0
    limiters,  \* the registry's map: key -> limiter object, 0 when absent
    th,        \* th[t]: goroutine t's position and locals
    started,   \* calls begun so far
    created,   \* created[k]: limiters constructed for key k
    mapped,    \* mapped[k]: every object the map has held under key k
    calls,     \* calls[k]: Allow calls for key k that have taken their decision
    admitted   \* admitted[k]: those that returned true

seqvars == <<lim, born, hist>>
convars == <<cfg, heap, limMu, regMu, limiters, th, started, created, mapped,
             calls, admitted>>
vars == <<clock, lim, born, hist, cfg, heap, limMu, regMu, limiters, th, started,
          created, mapped, calls, admitted>>

NoLimiter == [kind |-> "none"]
IdleThread == [pc |-> "idle", key |-> NoKey, obj |-> 0, snap |-> NoLimiter,
               now |-> 0, ret |-> FALSE]

\* no concurrent callers
ConStart ==
    /\ regMu = 0
    /\ limiters = [k \in Keys |-> 0]
    /\ th = [t \in Threads |-> IdleThread]
    /\ started = 0
    /\ created = [k \in Keys |-> 0]
    /\ mapped = [k \in Keys |-> {}]
    /\ calls = [k \in Keys \cup {NoKey} |-> 0]
    /\ admitted = [k \in Keys \cup {NoKey} |-> 0]

ConIdle ==
    /\ cfg = NoLimiter
    /\ heap = << >>
    /\ limMu = << >>
    /\ ConStart

\* ------------------------------------------------------------ one limiter, one caller
\* One Allow call of the single caller.  The injected clock returns t: the
\* reading of the previous call (the clock did not move), a later one
\* (clock.advance) or an earlier one (clock.now = clock.now.Add(-d)).
Step(t) ==
    /\ Len(hist) < MaxCalls
    /\ clock' = t
    /\ LET r == Allow(lim, t)
       IN /\ lim' = r.lim
          /\ hist' = Append(hist, [at |-> t, ok |-> r.ok, pre |-> lim])
    /\ UNCHANGED <<born, convars>>

CallFrozen == Step(clock)

CallLater == \E t \in Times : t > clock /\ Step(t)

CallEarlier == \E t \in Times : t < clock /\ Step(t)

NextSeq == CallFrozen \/ CallLater \/ CallEarlier

SeqStart ==
    /\ clock = 0
    /\ born = 0
    /\ hist = << >>
    /\ ConIdle

InitToken ==
    /\ SeqStart
    /\ \E c \in 0..MaxCapacity, r \in 0..MaxRate :
          lim = NewLimiterWithClock(c, r, 0)

InitLeaky ==
    /\ SeqStart
    /\ \E c \in 0..MaxCapacity, r \in 0..MaxRate :
          lim = NewLeakyLimiterWithClock(c, r, 0)

\* a FixedLimiter constructed at the epoch or before it
InitFixed ==
    /\ born \in {MinTime, 0}
    /\ clock = born
    /\ hist = << >>
    /\ ConIdle
    /\ \E n \in 0..MaxCapacity \cup {MaxUint32}, w \in 0..MaxWindow :
          lim = NewFixedLimiterWithClock(n, w, born)

\* a FixedLimiter constructed at the epoch, limit in the small range
InitFixedAtEpoch ==
    /\ InitFixed
    /\ born = 0
    /\ lim.limit <= MaxCapacity

InitSliding ==
    /\ SeqStart
    /\ \E n \in 0..MaxCapacity, w \in 0..MaxWindow :
          lim = NewSlidingLimiterWithClock(n, w, 0)

InitGCRA ==
    /\ SeqStart
    /\ \E r \in 0..(TicksPerSecond + 1), b \in 0..MaxCapacity :
          lim = NewGCRALimiterWithClock(r, b)

\* NewGCRALimiterWithClock(rate, burst, clock), the arguments kept in cfg;
\* rates from negative to above one request per tick
InitGCRAArgs ==
    /\ clock = 0
    /\ born = 0
    /\ hist = << >>
    /\ heap = << >>
    /\ limMu = << >>
    /\ ConStart
    /\ \E r \in (0 - 1)..(TicksPerSecond + 1), b \in 0..MaxCapacity :
          /\ cfg = [kind |-> "gcra_args", rate |-> r, burst |-> b]
          /\ lim = NewGCRALimiterWithClock(r, b)

SpecToken == InitToken /\ [][NextSeq]_vars
SpecBuckets == (InitToken \/ InitLeaky) /\ [][NextSeq]_vars
SpecFixed == InitFixed /\ [][NextSeq]_vars
SpecFixedAtEpoch == InitFixedAtEpoch /\ [][NextSeq]_vars
SpecSliding == InitSliding /\ [][NextSeq]_vars
SpecGCRA == InitGCRA /\ [][NextSeq]_vars
SpecGCRAArgs == InitGCRAArgs /\ [][NextSeq]_vars
SpecBackward == (InitSliding \/ InitGCRA) /\ [][NextSeq]_vars
SpecAll == (InitToken \/ InitLeaky \/ InitFixed \/ InitSliding \/ InitGCRA)
             /\ [][NextSeq]_vars
SpecZero == (InitToken \/ InitLeaky \/ InitFixed \/ InitSliding) /\ [][NextSeq]_vars

\* ------------------------------------------------------------ concurrent callers
\* A goroutine's Allow on a mutex-guarded limiter, in the steps other goroutines
\* can interleave with: mu.Lock(); the loads (the clock and the limiter's
\* fields); the stores and the decision; the deferred mu.Unlock().
Goto(t, pc) == [th EXCEPT ![t].pc = pc]

LimLock(t) ==
    /\ th[t].pc = "lim_lock"
    /\ CanLock(limMu[th[t].obj])
    /\ limMu' = [limMu EXCEPT ![th[t].obj] = t]
    /\ th' = Goto(t, "lim_read")
    /\ UNCHANGED <<clock, seqvars, cfg, heap, regMu, limiters, started, created,
                   mapped, calls, admitted>>

LimRead(t) ==
    /\ th[t].pc = "lim_read"
    /\ th' = [th EXCEPT ![t].pc = "lim_write",
                        ![t].snap = heap[th[t].obj],
                        ![t].now = clock]
    /\ UNCHANGED <<clock, seqvars, cfg, heap, limMu, regMu, limiters, started,
                   created, mapped, calls, admitted>>

LimWrite(t) ==
    /\ th[t].pc = "lim_write"
    /\ LET r == Allow(th[t].snap, th[t].now)
           k == th[t].key
       IN /\ heap' = [heap EXCEPT ![th[t].obj] = r.lim]
          /\ th' = [th EXCEPT ![t].pc = "lim_unlock", ![t].ret = r.ok]
          /\ calls' = [calls EXCEPT ![k] = @ + 1]
          /\ admitted' = [admitted EXCEPT ![k] = @ + (IF r.ok THEN 1 ELSE 0)]
    /\ UNCHANGED <<clock, seqvars, cfg, limMu, regMu, limiters, started, created,
                   mapped>>

LimUnlock(t) ==
    /\ th[t].pc = "lim_unlock"
    /\ limMu' = [limMu EXCEPT ![th[t].obj] = 0]
    /\ th' = IF th[t].key = NoKey
               THEN [th EXCEPT ![t] = IdleThread]
               ELSE Goto(t, "reg_unlock")
    /\ UNCHANGED <<clock, seqvars, cfg, heap, regMu, limiters, started, created,
                   mapped, calls, admitted>>

\* go func() { lim.Allow() }() on the one shared limiter
Begin(t) ==
    /\ th[t].pc = "idle"
    /\ started < MaxConcCalls
    /\ started' = started + 1
    /\ th' = [th EXCEPT ![t].pc = "lim_lock", ![t].key = NoKey, ![t].obj = 1]
    /\ UNCHANGED <<clock, seqvars, cfg, heap, limMu, regMu, limiters, created,
                   mapped, calls, admitted>>

NextConc ==
    \E t \in Threads :
        Begin(t) \/ LimLock(t) \/ LimRead(t) \/ LimWrite(t) \/ LimUnlock(t)

\* the limiters of the concurrency tests, fresh, the clock frozen at 0
FreshLimiters ==
    {NewLimiterWithClock(c, r, 0) : c \in 0..MaxCapacity, r \in 0..MaxRate}
    \cup {NewLeakyLimiterWithClock(c, r, 0) : c \in 0..MaxCapacity, r \in 0..MaxRate}
    \cup {NewFixedLimiterWithClock(n, w, 0) : n \in 0..MaxCapacity, w \in 0..MaxWindow}
    \cup {NewSlidingLimiterWithClock(n, w, 0) : n \in 0..MaxCapacity, w \in 0..MaxWindow}
    \cup {NewGCRALimiterWithClock(r, b) : r \in 0..(TicksPerSecond + 1), b \in 0..MaxCapacity}

SeqIdle ==
    /\ lim = NoLimiter
    /\ born = 0
    /\ hist = << >>

InitConc ==
    /\ clock = 0
    /\ SeqIdle
    /\ ConStart
    /\ cfg \in FreshLimiters
    /\ heap = <<cfg>>
    /\ limMu = <<0>>

SpecConc == InitConc /\ [][NextConc]_vars

\* ------------------------------------------------------------ Registry
\* NewLimiter(capacity, rate): a TokenLimiter on the real clock
NewLimiter(capacity, rate, now) == NewLimiterWithClock(capacity, rate, now)

\* NewRegistry(capacity, rate, users...): one limiter per listed user, the
\* objects numbered in the order of the keys
Rank(k, users) == Cardinality({j \in users : j <= k})

NewRegistry(capacity, rate, users) ==
    [heap |-> [i \in 1..Cardinality(users) |-> NewLimiter(capacity, rate, 0)],
     limiters |-> [k \in Keys |-> IF k \in users THEN Rank(k, users) ELSE 0]]

\* go func() { reg.Allow(key) }()
RegBegin(t, k) ==
    /\ th[t].pc = "idle"
    /\ started < MaxConcCalls
    /\ started' = started + 1
    /\ th' = [th EXCEPT ![t].pc = "reg_lock", ![t].key = k, ![t].obj = 0]
    /\ UNCHANGED <<clock, seqvars, cfg, heap, limMu, regMu, limiters, created,
                   mapped, calls, admitted>>

\* r.mu.Lock()
RegLock(t) ==
    /\ th[t].pc = "reg_lock"
    /\ CanLock(regMu)
    /\ regMu' = t
    /\ th' = Goto(t, "reg_lookup")
    /\ UNCHANGED <<clock, seqvars, cfg, heap, limMu, limiters, started, created,
                   mapped, calls, admitted>>

\* mutant: a lookup that ignores the key and hands out the first limiter
RegLookup_IgnoresKey(t) ==
    /\ th[t].pc = "reg_lookup"
    /\ th' = IF Len(heap) > 0
               THEN [th EXCEPT ![t].pc = "lim_lock", ![t].obj = 1]
               ELSE Goto(t, "reg_new")
    /\ UNCHANGED <<clock, seqvars, cfg, heap, limMu, regMu, limiters, started,
                   created, mapped, calls, admitted>>

\* lim, ok := r.limiters[key]; if !ok { ... }
RegLookup(t) ==
    /\ th[t].pc = "reg_lookup"
    /\ th' = IF limiters[th[t].key] # 0
               THEN [th EXCEPT ![t].pc = "lim_lock", ![t].obj = limiters[th[t].key]]
               ELSE Goto(t, "reg_new")
    /\ UNCHANGED <<clock, seqvars, cfg, heap, limMu, regMu, limiters, started,
                   created, mapped, calls, admitted>>

\* lim = NewLimiter(r.capacity, r.rate)
RegNew(t) ==
    /\ th[t].pc = "reg_new"
    /\ heap' = Append(heap, NewLimiter(cfg.capacity, cfg.rate, clock))
    /\ limMu' = Append(limMu, 0)
    /\ created' = [created EXCEPT ![th[t].key] = @ + 1]
    /\ th' = [th EXCEPT ![t].pc = "reg_insert", ![t].obj = Len(heap) + 1]
    /\ UNCHANGED <<clock, seqvars, cfg, regMu, limiters, started, mapped, calls,
                   admitted>>

\* r.limiters[key] = lim
RegInsert(t) ==
    /\ th[t].pc = "reg_insert"
    /\ limiters' = [limiters EXCEPT ![th[t].key] = th[t].obj]
    /\ mapped' = [mapped EXCEPT ![th[t].key] = @ \cup {th[t].obj}]
    /\ th' = Goto(t, "lim_lock")
    /\ UNCHANGED <<clock, seqvars, cfg, heap, limMu, regMu, started, created,
                   calls, admitted>>

\* mutant: a return that forgets the deferred unlock
RegUnlock_KeepsLock(t) ==
    /\ th[t].pc = "reg_unlock"
    /\ th' = [th EXCEPT ![t] = IdleThread]
    /\ UNCHANGED <<clock, seqvars, cfg, heap, limMu, regMu, limiters, started,
                   created, mapped, calls, admitted>>

\* the deferred r.mu.Unlock(), after lim.Allow() has returned
RegUnlock(t) ==
    /\ th[t].pc = "reg_unlock"
    /\ regMu' = 0
    /\ th' = [th EXCEPT ![t] = IdleThread]
    /\ UNCHANGED <<clock, seqvars, cfg, heap, limMu, limiters, started, created,
                   mapped, calls, admitted>>

\* the clock is frozen while the goroutines run
NextRegistry ==
    \E t \in Threads :
        \/ \E k \in Keys : RegBegin(t, k)
        \/ RegLock(t) \/ RegLookup(t) \/ RegNew(t) \/ RegInsert(t)
        \/ LimLock(t) \/ LimRead(t) \/ LimWrite(t) \/ LimUnlock(t)
        \/ RegUnlock(t)

InitRegistry ==
    /\ clock = 0
    /\ SeqIdle
    /\ regMu = 0
    /\ th = [t \in Threads |-> IdleThread]
    /\ started = 0
    /\ calls = [k \in Keys \cup {NoKey} |-> 0]
    /\ admitted = [k \in Keys \cup {NoKey} |-> 0]
    /\ \E c \in 0..MaxCapacity, r \in {0, MaxRate}, users \in SUBSET Keys :
          LET reg == NewRegistry(c, r, users)
          IN /\ cfg = [kind |-> "registry", capacity |-> c, rate |-> r]
             /\ heap = reg.heap
             /\ limMu = [i \in 1..Len(reg.heap) |-> 0]
             /\ limiters = reg.limiters
             /\ created = [k \in Keys |-> IF k \in users THEN 1 ELSE 0]
             /\ mapped = [k \in Keys |-> IF k \in users THEN {reg.limiters[k]} ELSE {}]

SpecRegistry == InitRegistry /\ [][NextRegistry]_vars

\* ============================================================ properties

\* what a single goroutine gets from n Allow calls in a row at reading now
RECURSIVE SeqAdmits(_, _, _)
SeqAdmits(l, n, now) ==
    IF n = 0
      THEN 0
      ELSE LET r == Allow(l, now)
           IN (IF r.ok THEN 1 ELSE 0) + SeqAdmits(r.lim, n - 1, now)

\* the capacity / limit / burst a limiter was built with
BurstSize(l) ==
    CASE l.kind \in {"token", "leaky"}   -> l.capacity
      [] l.kind \in {"fixed", "sliding"} -> l.limit
      [] l.kind = "gcra"                 -> l.limit \div l.emission

\* C1: with the clock frozen, however the goroutines' Allow calls on one fresh
\* mutex-guarded limiter interleave, the calls that have taken their decision
\* admitted exactly as many as one goroutine making that many calls in a row
\* would, which is min(N, capacity / limit / burst) (for GCRA: whenever the
\* emission interval is at least one tick).
C1_ConcurrentAsSequential ==
    LET n == calls[NoKey]
    IN /\ admitted[NoKey] = SeqAdmits(cfg, n, clock)
       /\ (cfg.kind = "gcra" => cfg.emission > 0)
             => admitted[NoKey] = Min(n, BurstSize(cfg))

\* three calls on a TokenLimiter of capacity 2 decided, two admitted, while a
\* fourth goroutine waits for the mutex another one holds
C1_Witness ==
    /\ cfg.kind = "token"
    /\ cfg.capacity = 2
    /\ calls[NoKey] = 3
    /\ admitted[NoKey] = 2
    /\ \E t, u \in Threads :
          /\ t # u
          /\ th[t].pc = "lim_lock"
          /\ limMu[1] = u
          /\ th[u].pc = "lim_unlock"
          /\ th[u].ret = FALSE

\* C2: every key is mapped to at most one limiter over the registry's
\* lifetime: at most one limiter is ever constructed for a key, also when
\* goroutines race on a new key, and the map entry of a key, once set, is the
\* only object the map ever held for it.
C2_OneLimiterPerKey ==
    \A k \in Keys :
        /\ created[k] <= 1
        /\ Cardinality(mapped[k]) <= 1
        /\ limiters[k] = 0 => mapped[k] = {}
        /\ limiters[k] # 0 => mapped[k] = {limiters[k]} /\ created[k] = 1

\* a goroutine is inserting the limiter it built for a new key while another
\* goroutine with the same key waits for the registry lock
C2_Witness ==
    \E t, u \in Threads :
        /\ t # u
        /\ th[t].pc = "reg_insert"
        /\ th[u].pc = "reg_lock"
        /\ th[u].key = th[t].key
        /\ created[th[t].key] = 1

\* C3: with the clock frozen, each key admits exactly min(calls for the key,
\* capacity), and the tokens of a key's limiter are the capacity less the
\* key's own admissions: calls on other keys take nothing from it.
C3_PerKeyIsolation ==
    \A k \in Keys :
        /\ admitted[k] = Min(calls[k], cfg.capacity)
        /\ limiters[k] # 0 =>
              heap[limiters[k]].tokens
                 = (cfg.capacity - admitted[k]) * TicksPerSecond
        /\ limiters[k] = 0 => calls[k] = 0

\* Registry(capacity 1, rate 0), nobody preloaded: two calls for each of two
\* keys, one admitted and one denied for each
C3_Witness ==
    /\ cfg.capacity = 1
    /\ cfg.rate = 0
    /\ \A k \in {1, 2} : calls[k] = 2 /\ admitted[k] = 1
    /\ Len(heap) = 2
    /\ \A t \in Threads : th[t].pc = "idle"

\* ------------------------------------------------------------ one caller
Calls == 1..Len(hist)

\* the limiter as call i left it
Post(i) == IF i < Len(hist) THEN hist[i + 1].pre ELSE lim

CeilDiv(a, b) == (a + b - 1) \div b

\* the caller never read the clock earlier than at construction or than the
\* reading of its previous call
MonotoneClock ==
    /\ \A i \in Calls : born <= hist[i].at
    /\ \A i, j \in Calls : i <= j => hist[i].at <= hist[j].at

\* C4: after construction and after every Allow, whatever readings the clock
\* returned (later, equal or earlier), 0 <= tokens <= capacity for a
\* TokenLimiter and 0 <= level <= capacity for a LeakyLimiter.
C4_TokensAndLevelInRange ==
    /\ lim.kind = "token" =>
          0 <= lim.tokens /\ lim.tokens <= lim.capacity * TicksPerSecond
    /\ lim.kind = "leaky" =>
          0 <= lim.level /\ lim.level <= lim.capacity * TicksPerSecond

\* a LeakyLimiter of capacity 2 that was called at a reading before its
\* timestamp, has drained by half a unit since, and is left at level 1.5
C4_Witness ==
    /\ lim.kind = "leaky"
    /\ lim.capacity = 2
    /\ lim.level > TicksPerSecond
    /\ lim.level < 2 * TicksPerSecond
    /\ \E i \in Calls : hist[i].at < hist[i].pre.lastUpdatedAt
    /\ \E i \in Calls : hist[i].at > hist[i].pre.lastUpdatedAt /\ hist[i].pre.level > 0

\* C5: a fresh TokenLimiter of capacity C is full: as long as every call so
\* far read the clock at the construction instant, call i is admitted iff
\* i <= C, for every C >= 0 and every rate.
C5_StartsFull ==
    lim.kind = "token" =>
        \A i \in Calls :
            (\A j \in 1..i : hist[j].at = born) => (hist[i].ok <=> i <= lim.capacity)

\* capacity 2, rate 2: three calls at the construction instant, the third denied
C5_Witness ==
    /\ lim.kind = "token"
    /\ lim.capacity = 2
    /\ lim.rate = 2
    /\ Len(hist) = 3
    /\ \A i \in Calls : hist[i].at = born
    /\ hist[1].ok /\ hist[2].ok /\ ~hist[3].ok

\* the clock reading before call i: that of the previous call, or of the
\* construction
PrevAt(i) == IF i = 1 THEN born ELSE hist[i - 1].at

C7_BoundedAdmission ==
    (lim.kind = "token" /\ MonotoneClock) =>
        \A a, b \in Times :
            a <= b =>
               Cardinality({i \in Calls : hist[i].ok /\ a <= hist[i].at /\ hist[i].at <= b})
                  <= lim.capacity + CeilDiv((b - a) * lim.rate, TicksPerSecond)

\* capacity 1, rate 1: an admission, and half a second later a denied call,
\* and another half second later the second admission: 2 = 1 + ceil(1 * 1)
C7_Witness ==
    /\ lim.kind = "token"
    /\ lim.capacity = 1
    /\ lim.rate = 1
    /\ MonotoneClock
    /\ Len(hist) = 3
    /\ hist[1].ok /\ ~hist[2].ok /\ hist[3].ok
    /\ hist[3].at - hist[1].at = TicksPerSecond

\* C8: a call that reads the clock before the limiter's timestamp leaves the
\* timestamp alone and adds or drains nothing: it decides on the tokens
\* (level) it found and changes them by its own admission only.  So a drained
\* TokenLimiter and a full LeakyLimiter still deny.
C8_BackwardStepChangesNothing ==
    \A i \in Calls :
        LET s == hist[i].pre
            p == Post(i)
            one == IF hist[i].ok THEN TicksPerSecond ELSE 0
        IN /\ (s.kind = "token" /\ hist[i].at < s.lastRefillAt) =>
                 /\ p.lastRefillAt = s.lastRefillAt
                 /\ hist[i].ok <=> s.tokens >= TicksPerSecond
                 /\ p.tokens = s.tokens - one
           /\ (s.kind = "leaky" /\ hist[i].at < s.lastUpdatedAt) =>
                 /\ p.lastUpdatedAt = s.lastUpdatedAt
                 /\ hist[i].ok <=> s.level + TicksPerSecond <= s.capacity * TicksPerSecond
                 /\ p.level = s.level + one

\* TokenLimiter(1, 1): drained, then called with the clock one second back:
\* denied, and still empty with its timestamp unchanged
C8_Witness ==
    /\ lim.kind = "token"
    /\ lim.capacity = 1
    /\ lim.rate = 1
    /\ Len(hist) = 2
    /\ hist[1].ok
    /\ hist[2].at = hist[1].at - TicksPerSecond
    /\ ~hist[2].ok
    /\ lim.tokens = 0
    /\ lim.lastRefillAt = hist[1].at

\* C9: TokenLimiter(C, 0) only drains: whatever the clock returns, no call
\* leaves more tokens than it found and at most C calls are admitted.
C9_ZeroRateOnlyDrains ==
    (lim.kind = "token" /\ lim.rate = 0) =>
        /\ Cardinality({i \in Calls : hist[i].ok}) <= lim.capacity
        /\ \A i \in Calls : Post(i).tokens <= hist[i].pre.tokens

\* TokenLimiter(2, 0): two admissions, then denied two seconds later and
\* denied again at an earlier reading
C9_Witness ==
    /\ lim.kind = "token"
    /\ lim.capacity = 2
    /\ lim.rate = 0
    /\ Len(hist) = 4
    /\ hist[1].ok /\ hist[2].ok /\ ~hist[3].ok /\ ~hist[4].ok
    /\ hist[3].at = hist[2].at + 2 * TicksPerSecond
    /\ hist[4].at < hist[3].at

\* C10: a TokenLimiter or LeakyLimiter of capacity 0 and a FixedLimiter or
\* SlidingLimiter of limit 0 deny every call, whatever the clock returns.
C10_ZeroCapacityDenies ==
    (\/ lim.kind \in {"token", "leaky"} /\ lim.capacity = 0
     \/ lim.kind \in {"fixed", "sliding"} /\ lim.limit = 0)
        => \A i \in Calls : ~hist[i].ok

\* FixedLimiter(0, w): calls in the window of construction, in a later window
\* and in an earlier one, all denied
C10_Witness ==
    /\ lim.kind = "fixed"
    /\ lim.limit = 0
    /\ Len(hist) = 3
    /\ hist[1].pre.start = Post(1).start
    /\ hist[2].pre.start < Post(2).start
    /\ hist[3].pre.start > Post(3).start
    /\ \A i \in Calls : ~hist[i].ok

\* a fresh LeakyLimiter admits exactly its first capacity calls while the
\* clock stays at the construction reading
LeakyStartsEmpty ==
    \A j \in Calls :
        (\A m \in 1..j : hist[m].at = born) => (hist[j].ok <=> j <= lim.capacity)

CountAfterReset(i) ==
    IF windowStart(hist[i].at, hist[i].pre.window) # hist[i].pre.start
      THEN 0
      ELSE hist[i].pre.count

\* C12: FixedLimiter.Allow admits iff, after any window reset, the counter is
\* strictly below limit, and count <= limit always, for every uint32 limit
\* including the largest.  (Fails at limit = MaxUint32: count + 1 wraps to 0.)
C12_AdmitsIffBelowLimit ==
    lim.kind = "fixed" =>
        /\ lim.count <= lim.limit
        /\ \A i \in Calls : hist[i].ok <=> CountAfterReset(i) < lim.limit

\* the same for every limit below the largest uint32 value
C12_BelowMaxUint32 ==
    (lim.kind = "fixed" /\ lim.limit < MaxUint32) =>
        /\ lim.count <= lim.limit
        /\ \A i \in Calls : hist[i].ok <=> CountAfterReset(i) < lim.limit

\* limit = MaxUint32: a call that found count = limit in its own window was
\* admitted and left count = 0
C12_Wrapped ==
    /\ lim.kind = "fixed"
    /\ lim.limit = MaxUint32
    /\ \E i \in Calls :
          /\ CountAfterReset(i) = MaxUint32
          /\ hist[i].ok
          /\ Post(i).count = 0

\* floor(now / window) * window
FloorAligned(now, window) == (now \div window) * window

\* C13: after construction and after every FixedLimiter.Allow, the stored
\* window start is floor(now / window) * window for the reading now that the
\* constructor or the call used, readings before the epoch included.
\* (Fails before the epoch: Go's integer division truncates toward zero.)
C13_WindowStartIsFloor ==
    lim.kind = "fixed" => lim.start = FloorAligned(clock, lim.window)

\* the same for readings at or after the epoch
C13_FromEpochOn ==
    (lim.kind = "fixed" /\ clock >= 0) => lim.start = FloorAligned(clock, lim.window)

\* a call read the clock one tick before the epoch with a window of two ticks
\* or more, and stored the epoch as its window start
C13_BeforeEpoch ==
    /\ lim.kind = "fixed"
    /\ lim.window > 1
    /\ Len(hist) > 0
    /\ clock = -1
    /\ lim.start = 0

\* the number of admitted calls whose reading lies in the epoch-aligned
\* window starting at ws
AdmittedInWindow(ws) ==
    Cardinality({i \in Calls :
                   hist[i].ok /\ FloorAligned(hist[i].at, lim.window) = ws})

\* call i is the first call in a window later than that of the previous reading
FirstInLaterWindow(i) ==
    FloorAligned(hist[i].at, lim.window) > FloorAligned(PrevAt(i), lim.window)

FixedWindowContract ==
    /\ \A t \in Times : AdmittedInWindow(FloorAligned(t, lim.window)) <= lim.limit
    /\ \A i \in Calls : \A j \in i..Len(hist) :
          (/\ FirstInLaterWindow(i)
           /\ \A m \in i..j : FloorAligned(hist[m].at, lim.window)
                                = FloorAligned(hist[i].at, lim.window))
          => (hist[j].ok <=> j - i + 1 <= lim.limit)
    /\ \A i \in Calls :
          FloorAligned(hist[i].at, lim.window) = FloorAligned(PrevAt(i), lim.window)
          => windowStart(hist[i].at, lim.window) = hist[i].pre.start

\* C14: under a non-decreasing clock a FixedLimiter admits at most limit calls
\* whose readings lie in one epoch-aligned window, the first call in a later
\* window makes exactly limit admissions available again, and a call in the
\* window of the previous reading does not reset the counter.
\* (Fails at limit = MaxUint32, C12, and across the epoch, C13.)
C14_PerWindowLimit ==
    (lim.kind = "fixed" /\ MonotoneClock) => FixedWindowContract

\* the same for limits below MaxUint32 and limiters constructed at the epoch
\* or later
C14_AwayFromOverflowAndEpoch ==
    (lim.kind = "fixed" /\ MonotoneClock /\ lim.limit < MaxUint32 /\ born >= 0)
        => FixedWindowContract

\* limit 1, window of two ticks, clock non-decreasing: admitted one tick
\* before the epoch, denied at the epoch although that is a later window
C14_StuckAcrossEpoch ==
    /\ lim.kind = "fixed"
    /\ lim.limit = 1
    /\ lim.window = 2
    /\ MonotoneClock
    /\ Len(hist) = 2
    /\ hist[1].at = -1 /\ hist[1].ok
    /\ hist[2].at = 0 /\ ~hist[2].ok

\* the decisions of FixedLimiter l for Allow calls at the readings ts, in order
RECURSIVE Decisions(_, _)
Decisions(l, ts) ==
    IF ts = << >>
      THEN << >>
      ELSE LET r == FixedLimiter_Allow(l, Head(ts))
           IN <<r.ok>> \o Decisions(r.lim, Tail(ts))

\* C15: a second FixedLimiter with the same limit and window, constructed at
\* any other instant and not used before, returns for the same sequence of
\* clock readings the decisions this limiter returned: window boundaries do
\* not depend on the construction time.
C15_ConstructionTimeIrrelevant ==
    lim.kind = "fixed" =>
        \A b \in Times :
            Decisions(NewFixedLimiterWithClock(lim.limit, lim.window, b),
                      [i \in Calls |-> hist[i].at])
              = [i \in Calls |-> hist[i].ok]

\* limit 1, window of two ticks, constructed at the epoch: admitted and denied
\* in the first window, then admitted and denied in the next; a limiter
\* constructed at MaxTime starts with another window start
C15_Witness ==
    /\ lim.kind = "fixed"
    /\ lim.limit = 1
    /\ lim.window = 2
    /\ born = 0
    /\ windowStart(MaxTime, lim.window) # windowStart(born, lim.window)
    /\ Len(hist) = 4
    /\ hist[1].at = 1 /\ hist[2].at = 1 /\ hist[3].at = 2 /\ hist[4].at = 3
    /\ hist[1].ok /\ ~hist[2].ok /\ hist[3].ok /\ ~hist[4].ok

\* C16: for every sequence of clock readings, steps back into an earlier
\* window and forward again included, the admitted calls whose readings lie in
\* one epoch-aligned window never exceed limit.
\* (Fails: every change of window, backward too, zeroes the counter.)
C16_BackwardNeverLoosens ==
    lim.kind = "fixed" =>
        \A t \in Times : AdmittedInWindow(FloorAligned(t, lim.window)) <= lim.limit

\* limit 1, window of two ticks, all readings after the epoch: admitted in
\* [2, 4), admitted after a step back into [0, 2), admitted again in [2, 4)
C16_ReadmittedAfterStepBack ==
    /\ lim.kind = "fixed"
    /\ lim.limit = 1
    /\ lim.window = 2
    /\ born = 0
    /\ Len(hist) = 3
    /\ hist[1].at = 2 /\ hist[2].at = 0 /\ hist[3].at = 2
    /\ \A i \in Calls : hist[i].ok

\* ------------------------------------------------------------ SlidingLimiter claims
\* the number of queue entries call j counts against limit: those left live
\* by its expiry loop
LiveAtDecision(j) ==
    Len(hist[j].pre.q)
      - expire(hist[j].pre.q, hist[j].pre.head, hist[j].at - hist[j].pre.window)

\* C17: a request admitted at t0 expires exactly at t0 + window.  Under a
\* non-decreasing clock every Allow counts against limit exactly the earlier
\* admissions whose reading t0 satisfies now < t0 + window; an admission made
\* exactly window ago is no longer counted.
\* (Fails: the expiry loop keeps an entry that is exactly window old.)
C17_ExpiresAtWindow ==
    (lim.kind = "sliding" /\ MonotoneClock) =>
        \A j \in Calls :
            LiveAtDecision(j)
              = Cardinality({i \in 1..(j - 1) :
                               hist[i].ok /\ hist[j].at < hist[i].at + lim.window})

\* what the code does: an admission is counted up to and including the
\* instant t0 + window
C17_ExpiresAfterWindow ==
    (lim.kind = "sliding" /\ MonotoneClock) =>
        \A j \in Calls :
            LiveAtDecision(j)
              = Cardinality({i \in 1..(j - 1) :
                               hist[i].ok /\ hist[j].at <= hist[i].at + lim.window})

\* limit 1, window of two ticks: admitted at 0, denied at 2
C17_DeniedAtExpiry ==
    /\ lim.kind = "sliding"
    /\ lim.limit = 1
    /\ lim.window = 2
    /\ Len(hist) = 2
    /\ hist[1].at = 0 /\ hist[1].ok
    /\ hist[2].at = 2 /\ ~hist[2].ok

\* the live entries of the queue: Q[i] for i >= head
Live(l) == {l.q[k] : k \in (l.head + 1)..Len(l.q)}

\* C18: at every SlidingLimiter.Allow return every live queue entry is
\* strictly newer than the cutoff: Q[i] > now - window for all i >= head, now
\* the reading of that call.
\* (Fails: an entry equal to the cutoff stays live, see C17.)
C18_LiveEntriesNewerThanCutoff ==
    lim.kind = "sliding" => \A e \in Live(lim) : e > clock - lim.window

\* what the code keeps under a non-decreasing clock: Q[i] >= now - window
C18_LiveEntriesNotOlderThanCutoff ==
    (lim.kind = "sliding" /\ MonotoneClock) =>
        \A e \in Live(lim) : e >= clock - lim.window

\* a call returned with a live entry exactly window old
C18_EntryAtCutoff ==
    /\ lim.kind = "sliding"
    /\ MonotoneClock
    /\ Len(hist) > 0
    /\ \E e \in Live(lim) : e = clock - lim.window

\* C19: under a non-decreasing clock, in every closed interval [a, a + window]
\* at most limit Allow calls with readings in the interval return true; and
\* the live count len(Q) - head never exceeds limit.
C19_SlidingWindowBound ==
    lim.kind = "sliding" =>
        /\ Len(lim.q) - lim.head <= lim.limit
        /\ MonotoneClock =>
             \A a \in Times :
                 Cardinality({i \in Calls : /\ hist[i].ok
                                            /\ a <= hist[i].at
                                            /\ hist[i].at <= a + lim.window})
                   <= lim.limit

\* limit 1, window of two ticks, clock non-decreasing: admitted at 0, denied
\* at 2 (the closed interval [0, 2] is used up), admitted at 3
C19_Witness ==
    /\ lim.kind = "sliding"
    /\ lim.limit = 1
    /\ lim.window = 2
    /\ Len(hist) = 3
    /\ hist[1].at = 0 /\ hist[1].ok
    /\ hist[2].at = 2 /\ ~hist[2].ok
    /\ hist[3].at = 3 /\ hist[3].ok

\* ------------------------------------------------------------ backward clock, windows and GCRA
\* C20: in every reachable state of a SlidingLimiter or a GCRALimiter, if
\* Allow would return false at a reading t it would return false at every
\* earlier reading too; and no Allow call, whatever the clock returned, ever
\* decreased a GCRALimiter's tat.
C20_BackwardOnlyTightens ==
    lim.kind \in {"sliding", "gcra"} =>
        /\ \A t \in Times : \A u \in Times :
              (u < t /\ ~Allow(lim, t).ok) => ~Allow(lim, u).ok
        /\ lim.kind = "gcra" =>
              \A i \in Calls : Post(i).tat >= hist[i].pre.tat

\* GCRA, one request per second, burst 1: admitted, then the clock stepped
\* back and the call was denied; the limiter now denies at the readings before
\* its tat and admits at tat
C20_Witness ==
    /\ lim.kind = "gcra"
    /\ lim.emission = TicksPerSecond
    /\ lim.limit = TicksPerSecond
    /\ Len(hist) = 2
    /\ hist[1].ok
    /\ hist[2].at < hist[1].at /\ ~hist[2].ok
    /\ lim.tat = hist[1].at + TicksPerSecond
    /\ lim.tat \in Times
    /\ Allow(lim, lim.tat).ok
    /\ \A u \in Times : u < lim.tat => ~Allow(lim, u).ok

\* ------------------------------------------------------------ GCRALimiter claims
\* C21: every GCRALimiter.Allow computes new_tat = max(tat, now) + emission
\* and admits iff new_tat - burst_tolerance <= now; an admitted call leaves
\* tat = max(previous tat, now) + emission, a denied call leaves tat unchanged.
C21_TatUpdate ==
    lim.kind = "gcra" =>
        \A i \in Calls :
            LET s      == hist[i].pre
                now    == hist[i].at
                newTAT == Max(s.tat, now) + s.emission
            IN /\ hist[i].ok <=> newTAT - s.limit <= now
               /\ hist[i].ok => Post(i).tat = newTAT
               /\ ~hist[i].ok => Post(i).tat = s.tat
               /\ Post(i).emission = s.emission /\ Post(i).limit = s.limit

\* one request per second, burst 2: admitted with tat behind the clock,
\* admitted with tat ahead of the clock, then denied
C21_Witness ==
    /\ lim.kind = "gcra"
    /\ lim.emission = TicksPerSecond
    /\ lim.limit = 2 * TicksPerSecond
    /\ Len(hist) = 3
    /\ hist[1].ok /\ hist[1].pre.tat < hist[1].at
    /\ hist[2].ok /\ hist[2].pre.tat > hist[2].at
    /\ ~hist[3].ok /\ lim.tat = hist[3].pre.tat

\* the rate and burst a GCRALimiter works with: rate <= 0 and burst = 0 are
\* replaced by 1
Rate == IF cfg.rate <= 0 THEN 1 ELSE cfg.rate

Burst == IF cfg.burst = 0 THEN 1 ELSE cfg.burst

\* calls 1..n were all made at one reading (the clock frozen at t0)
FrozenUpTo(n) == \A m \in 1..n : hist[m].at = hist[1].at

\* of the calls of a fresh GCRALimiter at a frozen clock exactly the first
\* burst are admitted
BurstThenDenial ==
    \A j \in Calls : FrozenUpTo(j) => (hist[j].ok <=> j <= Burst)

\* after the full burst at t0 every call is denied as long as all readings are
\* before t0 + 1/rate  (t < t0 + 1/rate  iff  (t - t0) * rate < one second)
QuietBeforeInterval ==
    \A j \in Calls :
        (/\ j > Burst
         /\ FrozenUpTo(Burst)
         /\ \A m \in (Burst + 1)..j :
               (hist[m].at - hist[1].at) * Rate < TicksPerSecond)
        => ~hist[j].ok

\* the first call at t0 + 1/rate after the full burst is admitted
AdmittedAtInterval ==
    \A j \in Calls :
        (/\ j > Burst
         /\ FrozenUpTo(Burst)
         /\ \A m \in (Burst + 1)..(j - 1) :
               (hist[m].at - hist[1].at) * Rate < TicksPerSecond
         /\ (hist[j].at - hist[1].at) * Rate = TicksPerSecond)
        => hist[j].ok

\* C22: a fresh GCRALimiter with rate R and burst B, the clock frozen at t0,
\* admits exactly its first B calls and denies the next; after the full burst
\* no call is admitted at a reading before t0 + 1/R, and a call at t0 + 1/R is
\* admitted.
\* (Fails where the constructor's emission is not 1/R: above one request per
\* tick it truncates to 0 and nothing is ever denied, C39.)
C22_BurstThenInterval ==
    lim.kind = "gcra" =>
        BurstThenDenial /\ QuietBeforeInterval /\ AdmittedAtInterval

\* the same for the rates whose interval 1/R is a whole number of ticks
C22_ExactEmission ==
    (lim.kind = "gcra" /\ TicksPerSecond % Rate = 0) =>
        BurstThenDenial /\ QuietBeforeInterval /\ AdmittedAtInterval

\* rate above one request per tick, burst 1: a second call at the instant of
\* the first is admitted
C22_NoDenial ==
    /\ lim.kind = "gcra"
    /\ cfg.rate = TicksPerSecond + 1
    /\ cfg.burst = 1
    /\ lim.emission = 0
    /\ Len(hist) = 2
    /\ hist[2].at = hist[1].at
    /\ hist[1].ok /\ hist[2].ok

\* one request per second, burst 2: two admitted, one denied, and a call one
\* second after the burst admitted
C22_BurstAndInterval ==
    /\ lim.kind = "gcra"
    /\ cfg.rate = 1 /\ cfg.burst = 2
    /\ Len(hist) = 4
    /\ FrozenUpTo(3)
    /\ hist[1].ok /\ hist[2].ok /\ ~hist[3].ok
    /\ hist[4].at = hist[1].at + TicksPerSecond /\ hist[4].ok

\* call k was admitted at the reading t0 and exhausted the burst there (it
\* left tat = t0 + burst tolerance), and every call after it up to call i,
\* exclusive, was denied
ExhaustedBy(k, i) ==
    /\ k < i
    /\ hist[k].ok
    /\ Post(k).tat = hist[k].at + lim.limit
    /\ \A m \in (k + 1)..(i - 1) : ~hist[m].ok

\* C23: GCRA credit accrues one admission per emission interval, capped at
\* burst.  After the burst is exhausted at t0, of the calls made at the
\* reading t0 + d (d >= 0) exactly the first min(floor(d / emission), burst)
\* are admitted, however large d is.  (emission > 0: d / emission is defined.)
C23_CreditAccruesCapped ==
    (lim.kind = "gcra" /\ lim.emission > 0) =>
        \A k \in Calls : \A i \in Calls : \A j \in i..Len(hist) :
            LET d == hist[i].at - hist[k].at
            IN (/\ ExhaustedBy(k, i)
                /\ d >= 0
                /\ \A m \in i..j : hist[m].at = hist[i].at)
               => (hist[j].ok <=>
                     j - i + 1 <= Min(d \div lim.emission, lim.limit \div lim.emission))

\* two requests per second, burst 1: the burst used up at t0, then after an
\* idle period of three emission intervals one call admitted and the next
\* denied (the credit is capped at burst), then one more interval later one
\* call admitted
C23_Witness ==
    /\ lim.kind = "gcra"
    /\ lim.emission = 1
    /\ lim.limit = 1
    /\ Len(hist) = 4
    /\ hist[1].ok
    /\ hist[2].at = hist[1].at + 3 /\ hist[2].ok
    /\ hist[3].at = hist[2].at /\ ~hist[3].ok
    /\ hist[4].at = hist[3].at + 1 /\ hist[4].ok

\* in every interval [a, b] of readings at most burst + ceil((b - a) * rate)
\* calls are admitted, b - a in seconds
GCRAIntervalBound ==
    \A a \in Times : \A b \in Times :
        a <= b =>
            Cardinality({i \in Calls : hist[i].ok /\ a <= hist[i].at /\ hist[i].at <= b})
              <= Burst + CeilDiv((b - a) * Rate, TicksPerSecond)

\* C24: under a non-decreasing clock, for every rate and burst the constructor
\* accepts and every interval of length T, at most burst + ceil(T * rate) calls
\* with readings in the interval are admitted.
\* (Fails where the truncated emission is shorter than 1/rate; at emission 0,
\* C39, already for T = 0.)
C24_GCRABoundedAdmission ==
    (lim.kind = "gcra" /\ MonotoneClock) => GCRAIntervalBound

\* the same for the rates whose interval 1/rate is a whole number of ticks
C24_ExactEmission ==
    (lim.kind = "gcra" /\ MonotoneClock /\ TicksPerSecond % Rate = 0)
        => GCRAIntervalBound

\* rate above one request per tick, burst 1, clock non-decreasing: two calls
\* admitted at one instant, more than 1 + ceil(0 * rate)
C24_OverBound ==
    /\ lim.kind = "gcra"
    /\ cfg.rate = TicksPerSecond + 1
    /\ cfg.burst = 1
    /\ MonotoneClock
    /\ Len(hist) = 2
    /\ hist[1].at = hist[2].at
    /\ hist[1].ok /\ hist[2].ok
    /\ lim.emission = 0
    /\ lim.tat = hist[2].at

\* the decisions of GCRALimiter l for Allow calls at the readings ts, in order
RECURSIVE GCRADecisions(_, _)
GCRADecisions(l, ts) ==
    IF ts = << >>
      THEN << >>
      ELSE LET r == GCRALimiter_Allow(l, Head(ts))
           IN <<r.ok>> \o GCRADecisions(r.lim, Tail(ts))

\* C25: NewGCRALimiterWithClock normalizes its arguments.  A limiter built
\* with rate <= 0 decides every call sequence as one built with rate 1 and the
\* same burst does, and one built with burst 0 as one built with burst 1 and
\* the same rate; GCRA(0, 0) admits its first call, denies the further calls
\* at that instant and admits again one second later.
C25_ArgumentsNormalized ==
    lim.kind = "gcra" =>
        LET readings  == [i \in Calls |-> hist[i].at]
            decisions == [i \in Calls |-> hist[i].ok]
        IN /\ cfg.rate <= 0 =>
                 GCRADecisions(NewGCRALimiterWithClock(1, cfg.burst), readings) = decisions
           /\ cfg.burst = 0 =>
                 GCRADecisions(NewGCRALimiterWithClock(cfg.rate, 1), readings) = decisions
           /\ (cfg.rate = 0 /\ cfg.burst = 0) =>
                 /\ \A j \in Calls : FrozenUpTo(j) => (hist[j].ok <=> j = 1)
                 /\ \A j \in Calls :
                       (/\ j > 1
                        /\ \A m \in 1..(j - 1) : hist[m].at = hist[1].at
                        /\ hist[j].at = hist[1].at + TicksPerSecond)
                       => hist[j].ok

\* GCRA(0, 0): admitted, denied twice at the same instant, admitted one second
\* later
C25_Witness ==
    /\ lim.kind = "gcra"
    /\ cfg.rate = 0 /\ cfg.burst = 0
    /\ Len(hist) = 4
    /\ FrozenUpTo(3)
    /\ hist[1].ok /\ ~hist[2].ok /\ ~hist[3].ok
    /\ hist[4].at = hist[1].at + TicksPerSecond /\ hist[4].ok

\* ------------------------------------------------------------ all limiters
\* C26: monotone denial.  For each of the five limiters, in every reachable
\* state: if Allow returned false and the next Allow reads the same clock
\* value, it returns false too.
C26_MonotoneDenial ==
    \A i \in Calls :
        (i < Len(hist) /\ ~hist[i].ok /\ hist[i + 1].at = hist[i].at)
            => ~hist[i + 1].ok

\* a TokenLimiter holding half a token after a partial refill: denied, and
\* denied again at the same reading
C26_Witness ==
    /\ lim.kind = "token"
    /\ 0 < lim.tokens /\ lim.tokens < TicksPerSecond
    /\ \E i \in Calls :
          /\ i < Len(hist)
          /\ hist[i].at > hist[i].pre.lastRefillAt
          /\ ~hist[i].ok
          /\ hist[i + 1].at = hist[i].at
          /\ ~hist[i + 1].ok

\* C27: a denied Allow changes the limiter only by the refill, drain, expiry
\* or window reset that precedes the decision (no token consumed, level and
\* count not incremented, nothing appended to the queue, tat unchanged), and a
\* second denied call at the same reading leaves the state as the first left
\* it.
C27_DenialFrame ==
    \A i \in Calls :
        ~hist[i].ok =>
            /\ Post(i) = BeforeDecision(hist[i].pre, hist[i].at)
            /\ (i < Len(hist) /\ hist[i + 1].at = hist[i].at /\ ~hist[i + 1].ok)
                  => Post(i + 1) = Post(i)

\* a LeakyLimiter of capacity 1: filled, then denied at a later reading at
\* which half a unit had drained (the drain is kept, the level not raised),
\* then denied again at that reading
C27_Witness ==
    /\ lim.kind = "leaky"
    /\ lim.capacity = 1
    /\ Len(hist) = 3
    /\ hist[1].ok
    /\ hist[2].at > hist[1].at /\ ~hist[2].ok
    /\ hist[2].pre.level = TicksPerSecond
    /\ Post(2).level < TicksPerSecond /\ Post(2).level > 0
    /\ hist[3].at = hist[2].at /\ ~hist[3].ok
    /\ lim = Post(2)

\* ------------------------------------------------------------ package token
\* a nil *Limiter: what the constructor returns next to an error
Nil == [kind |-> "nil"]

\* token.NewLimiterWithClock(capacity, rate, clock): (nil, error) for a
\* negative capacity, then for a negative rate; otherwise a full bucket
token_NewLimiterWithClock(capacity, rate, now) ==
    IF capacity < 0
      THEN [lim |-> Nil, err |-> TRUE]
      ELSE IF rate < 0
        THEN [lim |-> Nil, err |-> TRUE]
        ELSE [lim |-> [kind |-> "token", capacity |-> capacity, rate |-> rate,
                       tokens |-> capacity * TicksPerSecond, lastRefillAt |-> now],
              err |-> FALSE]

token_NewLimiter(capacity, rate, now) == token_NewLimiterWithClock(capacity, rate, now)

\* (*Limiter).Allow of package token: refill, then take one token if there is
\* one; a nil receiver is dereferenced by refill and the call panics
token_Limiter_Allow(l, t) ==
    IF l = Nil
      THEN [lim |-> Nil, out |-> "panic"]
      ELSE LET r == TokenLimiter_Allow(l, t)
           IN [lim |-> r.lim, out |-> IF r.ok THEN "true" ELSE "false"]

\* token.NewRegistry(capacity, rate, users...): the arguments are stored as
\* given; a limiter is constructed for each listed user and the first failure
\* is returned, so with no users nothing validates the arguments
token_NewRegistry(capacity, rate, users) ==
    IF users # {} /\ token_NewLimiter(capacity, rate, 0).err
      THEN [reg |-> Nil, err |-> TRUE]
      ELSE [reg |-> [heap |-> [i \in 1..Cardinality(users) |->
                                  token_NewLimiter(capacity, rate, 0).lim],
                     limiters |-> [k \in Keys |->
                                  IF k \in users THEN Rank(k, users) ELSE 0]],
            err |-> FALSE]

\* the process has panicked: nothing runs after it
Panicked == \E i \in 1..Len(hist) : hist[i].out = "panic"

tokvars == <<limMu, regMu, th, started, created, mapped, calls, admitted, born>>

\* (*Registry).Allow(key) of package token, by one caller: under the
\* registry's lock, look the key up; if absent construct a limiter from the
\* stored arguments, DISCARDING the constructor's error, and store the result
\* in the map; then call Allow on it
token_Registry_Allow(k) ==
    /\ ~cfg.err
    /\ ~Panicked
    /\ Len(hist) < MaxCalls
    /\ LET fresh == limiters[k] = 0
           made == token_NewLimiter(cfg.capacity, cfg.rate, clock).lim
           idx == IF fresh THEN Len(heap) + 1 ELSE limiters[k]
           obj == IF fresh THEN made ELSE heap[idx]
           res == token_Limiter_Allow(obj, clock)
       IN /\ limiters' = [limiters EXCEPT ![k] = idx]
          /\ heap' = IF fresh THEN Append(heap, res.lim)
                              ELSE [heap EXCEPT ![idx] = res.lim]
          /\ hist' = Append(hist, [key |-> k, at |-> clock, out |-> res.out])
    /\ UNCHANGED <<clock, lim, cfg>>
    /\ UNCHANGED tokvars

\* Allow on a limiter obtained directly from token.NewLimiterWithClock; a
\* caller that got an error has no limiter to call
token_Direct_Allow ==
    /\ ~cfg.limErr
    /\ ~Panicked
    /\ Len(hist) < MaxCalls
    /\ LET res == token_Limiter_Allow(lim, clock)
       IN /\ lim' = res.lim
          /\ hist' = Append(hist, [key |-> NoKey, at |-> clock, out |-> res.out])
    /\ UNCHANGED <<clock, cfg, heap, limiters>>
    /\ UNCHANGED tokvars

\* a second passes on the injected clock
token_Advance ==
    /\ ~Panicked
    /\ clock + TicksPerSecond <= MaxTime
    /\ clock' = clock + TicksPerSecond
    /\ UNCHANGED <<lim, cfg, heap, limiters, hist>>
    /\ UNCHANGED tokvars

NextTokenPkg ==
    \/ \E k \in Keys : token_Registry_Allow(k)
    \/ token_Direct_Allow
    \/ token_Advance

\* every argument pair from -1 upwards and every list of preloaded users
InitTokenPkg ==
    /\ clock = 0
    /\ born = 0
    /\ hist = << >>
    /\ limMu = << >>
    /\ regMu = 0
    /\ th = [t \in Threads |-> IdleThread]
    /\ started = 0
    /\ created = [k \in Keys |-> 0]
    /\ mapped = [k \in Keys |-> {}]
    /\ calls = [k \in Keys \cup {NoKey} |-> 0]
    /\ admitted = [k \in Keys \cup {NoKey} |-> 0]
    /\ \E c \in -1..MaxCapacity, r \in -1..MaxRate, users \in SUBSET Keys :
          LET one == token_NewLimiterWithClock(c, r, 0)
              reg == token_NewRegistry(c, r, users)
          IN /\ cfg = [kind |-> "token_pkg", capacity |-> c, rate |-> r,
                       users |-> users, limErr |-> one.err, err |-> reg.err]
             /\ lim = one.lim
             /\ heap = IF reg.err THEN << >> ELSE reg.reg.heap
             /\ limiters = IF reg.err THEN [k \in Keys |-> 0] ELSE reg.reg.limiters

SpecTokenPkg == InitTokenPkg /\ [][NextTokenPkg]_vars

\* C28 as stated: a negative capacity or a negative rate makes both
\* token.NewLimiterWithClock and token.NewRegistry (with any list of users,
\* the empty one included) return an error and no object, and arguments that
\* are zero or more construct successfully.
C28_NegativeArgumentsRejected ==
    LET negative == cfg.capacity < 0 \/ cfg.rate < 0
    IN /\ cfg.limErr = negative
       /\ cfg.limErr => lim = Nil
       /\ cfg.err = negative

\* C28, the part the code keeps: the limiter's constructor rejects exactly the
\* negative arguments, and so does the registry's when at least one user is
\* preloaded.
C28_RejectedWhenValidated ==
    LET negative == cfg.capacity < 0 \/ cfg.rate < 0
    IN /\ cfg.limErr = negative
       /\ cfg.limErr => lim = Nil
       /\ (~cfg.limErr) => lim # Nil
       /\ cfg.users # {} => cfg.err = negative
       /\ ~negative => ~cfg.err

\* reached: a registry constructed without error from a negative capacity and
\* no users, while the limiter's constructor rejected the same arguments
C28_NegativeRegistry ==
    /\ cfg.capacity < 0
    /\ cfg.users = {}
    /\ ~cfg.err
    /\ cfg.limErr

\* C29 as stated: on a registry or limiter whose constructor returned no
\* error, Allow returns a boolean for every key, first-seen keys included; it
\* never panics.
C29_AllowNeverPanics ==
    \A i \in 1..Len(hist) : hist[i].out \in {"true", "false"}

\* C29, the part the code keeps: Allow returns a boolean on every limiter
\* obtained from the constructor and on every registry whose stored arguments
\* are not negative.
C29_TotalOnValidArguments ==
    \A i \in 1..Len(hist) :
        (hist[i].key = NoKey \/ (cfg.capacity >= 0 /\ cfg.rate >= 0))
            => hist[i].out \in {"true", "false"}

\* reached: the first Allow for a key panics on the nil limiter the registry
\* stored for it
C29_PanicOnFirstKey ==
    /\ Len(hist) >= 1
    /\ hist[Len(hist)].out = "panic"
    /\ hist[Len(hist)].key \in Keys
    /\ heap[limiters[hist[Len(hist)].key]] = Nil
    /\ ~cfg.err

\* ------------------------------------------------------------ HTTP middleware
\* The handler RateLimiter(reg, keyFunc)(next) returns, one goroutine per
\* request. A finished request is recorded in hist as
\* [key, ok, status, retryAfter, next]: ok is what reg.Allow returned, next the
\* number of times next.ServeHTTP ran, status 0 and retryAfter "" when the
\* middleware itself wrote nothing.
StatusOK == 200
StatusTooManyRequests == 429

\* mutant: the rejection without its return, falling through to next
RateLimiter_Respond_FallsThrough(ok) ==
    IF ~ok
      THEN [status |-> StatusTooManyRequests, retryAfter |-> "1", next |-> 1]
      ELSE [status |-> StatusOK, retryAfter |-> "", next |-> 1]

\* if !reg.Allow(key) { Retry-After: 1; http.Error(429); return }
\* next.ServeHTTP(w, r)   -- the next handler of the tests writes 200
RateLimiter_Respond(ok) ==
    IF ~ok
      THEN [status |-> StatusTooManyRequests, retryAfter |-> "1", next |-> 0]
      ELSE [status |-> StatusOK, retryAfter |-> "", next |-> 1]

\* go handler.ServeHTTP(rec, req): key := keyFunc(r), then reg.Allow(key)
HttpBegin(t, k) == RegBegin(t, k)

\* reg.Allow returns into the handler (its deferred r.mu.Unlock() runs)
HttpAllowReturns(t) ==
    /\ th[t].pc = "reg_unlock"
    /\ regMu' = 0
    /\ th' = Goto(t, "http_branch")
    /\ UNCHANGED <<clock, seqvars, cfg, heap, limMu, limiters, started, created,
                   mapped, calls, admitted>>

\* the branch on Allow's result, to the end of the request
HttpRespond(t) ==
    /\ th[t].pc = "http_branch"
    /\ LET res == RateLimiter_Respond(th[t].ret)
       IN hist' = Append(hist, [key |-> th[t].key, ok |-> th[t].ret,
                                status |-> res.status,
                                retryAfter |-> res.retryAfter,
                                next |-> res.next])
    /\ th' = [th EXCEPT ![t] = IdleThread]
    /\ UNCHANGED <<clock, lim, born, cfg, heap, limMu, regMu, limiters, started,
                   created, mapped, calls, admitted>>

NextHTTP ==
    \E t \in Threads :
        \/ \E k \in Keys : HttpBegin(t, k)
        \/ RegLock(t) \/ RegLookup(t) \/ RegNew(t) \/ RegInsert(t)
        \/ LimLock(t) \/ LimRead(t) \/ LimWrite(t) \/ LimUnlock(t)
        \/ HttpAllowReturns(t)
        \/ HttpRespond(t)

\* the registries of the middleware tests: token buckets that never refill,
\* no preloaded users
InitHTTP ==
    /\ clock = 0
    /\ SeqIdle
    /\ ConStart
    /\ limMu = << >>
    /\ \E c \in 0..MaxCapacity :
          /\ cfg = [kind |-> "registry", capacity |-> c, rate |-> 0]
          /\ heap = NewRegistry(c, 0, {}).heap

SpecHTTP == InitHTTP /\ [][NextHTTP]_vars

\* requests finished for key k, and next.ServeHTTP runs among them
Served(k) == {i \in 1..Len(hist) : hist[i].key = k}
RecSum(S) ==
    LET RECURSIVE Sum(_)
        Sum(T) == IF T = {} THEN 0
                  ELSE LET i == CHOOSE j \in T : TRUE
                       IN hist[i].next + Sum(T \ {i})
    IN Sum(S)
NextRuns(k) == RecSum(Served(k))
Quiescent == \A t \in Threads : th[t].pc = "idle"

\* C30: a request for which reg.Allow returned true runs the next handler
\* exactly once; one for which it returned false is answered 429 with
\* Retry-After: 1 and never runs the next handler; under concurrent requests
\* for one key the next handler has run, once all requests are finished,
\* exactly as many times as the registry admitted (never more while they
\* run), which for a bucket that does not refill is min(requests, capacity).
C30_NextRunsIffAdmitted ==
    /\ \A i \in 1..Len(hist) :
          /\ hist[i].ok => hist[i].next = 1
          /\ ~hist[i].ok => /\ hist[i].status = StatusTooManyRequests
                            /\ hist[i].retryAfter = "1"
                            /\ hist[i].next = 0
    /\ \A k \in Keys :
          /\ NextRuns(k) <= admitted[k]
          /\ Quiescent =>
                /\ NextRuns(k) = admitted[k]
                /\ Cardinality(Served(k)) = calls[k]
                /\ NextRuns(k) = Min(calls[k], cfg.capacity)

\* reached: three concurrent requests for one key against capacity 1 are all
\* finished; the next handler ran once and two were answered 429
C30_Witness ==
    /\ Quiescent
    /\ cfg.capacity = 1
    /\ \E k \in Keys :
          /\ Cardinality(Served(k)) = 3
          /\ NextRuns(k) = 1
          /\ \E i \in Served(k) : hist[i].status = StatusTooManyRequests
          /\ \E i \in Served(k) : i < Len(hist) /\ hist[i].next = 1

\* ------------------------------------------------------------ fair scheduling
\* A started goroutine is scheduled again and again (weak fairness of its
\* steps); whether another call is started is up to the program. The direct
\* calls run on the one limiter of InitConc, the keyed ones on a registry.
GoAllow(t) == cfg.kind # "registry" /\ Begin(t)
GoRegistryAllow(t, k) == cfg.kind = "registry" /\ RegBegin(t, k)

ThreadStep(t) ==
    \/ RegLock(t) \/ RegLookup(t) \/ RegNew(t) \/ RegInsert(t)
    \/ LimLock(t) \/ LimRead(t) \/ LimWrite(t) \/ LimUnlock(t)
    \/ RegUnlock(t)

NextFair ==
    \E t \in Threads :
        \/ GoAllow(t)
        \/ \E k \in Keys : GoRegistryAllow(t, k)
        \/ ThreadStep(t)

\* one limiter of each kind, or a registry with any list of preloaded users;
\* which step a goroutine takes next does not depend on the limiter's numbers
InitFair ==
    \/ /\ InitConc
       /\ cfg \in {NewLimiterWithClock(1, 0, 0), NewLeakyLimiterWithClock(1, 0, 0),
                   NewFixedLimiterWithClock(1, 1, 0),
                   NewSlidingLimiterWithClock(1, 1, 0),
                   NewGCRALimiterWithClock(1, 1)}
    \/ /\ InitRegistry
       /\ cfg.capacity = 1
       /\ cfg.rate = 0

SpecFair ==
    /\ InitFair
    /\ [][NextFair]_vars
    /\ \A t \in Threads : WF_vars(ThreadStep(t))

\* the locks goroutine t holds
HoldsReg(t) == regMu = t
HoldsLim(t) == \E o \in 1..Len(limMu) : limMu[o] = t

\* registry lock first, limiter lock second: nobody asks for the registry
\* lock while holding a limiter lock, and inside a registry call a limiter
\* lock is asked for and held only under the registry lock
LockOrder ==
    \A t \in Threads :
        /\ th[t].pc = "reg_lock" => ~HoldsLim(t)
        /\ (th[t].key # NoKey /\ (th[t].pc = "lim_lock" \/ HoldsLim(t)))
              => HoldsReg(t)

\* a call that has returned holds nothing
ReleasedOnReturn ==
    \A t \in Threads : th[t].pc = "idle" => ~HoldsReg(t) /\ ~HoldsLim(t)

\* while a call is in flight some goroutine can take a step
NoDeadlock ==
    (\E t \in Threads : th[t].pc # "idle") => \E t \in Threads : ENABLED ThreadStep(t)

\* C31: with any (finite) number of concurrent Allow calls on a limiter or on
\* a registry, under weak fairness of every goroutine's steps each call that
\* has started eventually returns; a returned call holds no lock; locks are
\* taken registry first, limiter second; and no state with a call in flight
\* is stuck.
C31_EveryAllowReturns ==
    /\ \A t \in Threads : (th[t].pc # "idle") ~> (th[t].pc = "idle")
    /\ [](LockOrder /\ ReleasedOnReturn /\ NoDeadlock)

\* reached: one goroutine is inside the limiter under both locks while two
\* others wait for the registry lock
C31_Witness ==
    \E t \in Threads :
        /\ HoldsReg(t) /\ HoldsLim(t)
        /\ Cardinality({u \in Threads : th[u].pc = "reg_lock"}) >= 2

\* ------------------------------------------------------------ token.Limiter, shared
\* token.Limiter has no mutex: goroutines calling Allow directly on one
\* limiter interleave at its loads and stores. A call is: refill's loads (the
\* clock, lastRefillAt, tokens), refill's stores, the test lim.tokens >= 1,
\* and lim.tokens--, which may reuse the value the test loaded or load again.
token_Go(t) ==
    /\ th[t].pc = "idle"
    /\ started < MaxConcCalls
    /\ started' = started + 1
    /\ th' = [th EXCEPT ![t].pc = "tok_refill_load", ![t].key = NoKey, ![t].obj = 1]
    /\ UNCHANGED <<clock, seqvars, cfg, heap, limMu, regMu, limiters, created,
                   mapped, calls, admitted>>

\* Allow returns: to the goroutine's end, or into Registry.Allow when the
\* call came through a registry (key is not NoKey)
token_Return(t, ok) ==
    IF th[t].key = NoKey
      THEN [th EXCEPT ![t] = IdleThread]
      ELSE [th EXCEPT ![t].pc = "reg_unlock", ![t].ret = ok]

token_RefillLoad(t) ==
    /\ th[t].pc = "tok_refill_load"
    /\ th' = [th EXCEPT ![t].pc = "tok_refill_store",
                        ![t].snap = heap[th[t].obj],
                        ![t].now = clock]
    /\ UNCHANGED <<clock, seqvars, cfg, heap, limMu, regMu, limiters, started,
                   created, mapped, calls, admitted>>

token_RefillStore(t) ==
    /\ th[t].pc = "tok_refill_store"
    /\ heap' = [heap EXCEPT ![th[t].obj] = refill(th[t].snap, th[t].now)]
    /\ th' = Goto(t, "tok_test")
    /\ UNCHANGED <<clock, seqvars, cfg, limMu, regMu, limiters, started, created,
                   mapped, calls, admitted>>

\* if lim.tokens >= 1 { ... } return false
token_Test(t) ==
    /\ th[t].pc = "tok_test"
    /\ IF heap[th[t].obj].tokens >= TicksPerSecond
         THEN /\ th' = [th EXCEPT ![t].pc = "tok_take",
                                  ![t].snap = heap[th[t].obj]]
              /\ UNCHANGED <<calls, admitted>>
         ELSE /\ th' = token_Return(t, FALSE)
              /\ calls' = [calls EXCEPT ![th[t].key] = @ + 1]
              /\ UNCHANGED admitted
    /\ UNCHANGED <<clock, seqvars, cfg, heap, limMu, regMu, limiters, started,
                   created, mapped>>

\* lim.tokens--; return true
token_Take(t) ==
    /\ th[t].pc = "tok_take"
    /\ \E seen \in {th[t].snap.tokens, heap[th[t].obj].tokens} :
          heap' = [heap EXCEPT ![th[t].obj].tokens = seen - TicksPerSecond]
    /\ th' = token_Return(t, TRUE)
    /\ calls' = [calls EXCEPT ![th[t].key] = @ + 1]
    /\ admitted' = [admitted EXCEPT ![th[t].key] = @ + 1]
    /\ UNCHANGED <<clock, seqvars, cfg, limMu, regMu, limiters, started, created,
                   mapped>>

NextTokenShared ==
    \E t \in Threads :
        \/ token_Go(t)
        \/ token_RefillLoad(t) \/ token_RefillStore(t)
        \/ token_Test(t) \/ token_Take(t)

\* a fresh token.Limiter, the clock frozen at 0
InitTokenShared ==
    /\ clock = 0
    /\ SeqIdle
    /\ ConStart
    /\ limMu = << >>
    /\ \E c \in 0..MaxCapacity, r \in 0..MaxRate :
          /\ cfg = token_NewLimiterWithClock(c, r, 0).lim
          /\ heap = <<cfg>>

SpecTokenShared == InitTokenShared /\ [][NextTokenShared]_vars

\* C32 as stated: for any interleaving of concurrent Allow calls made
\* directly on one token.Limiter with a frozen clock, tokens stays within
\* [0, capacity] and no more than capacity calls return true.
C32_SharedTokenLimiterSafe ==
    /\ heap[1].tokens >= 0
    /\ heap[1].tokens <= cfg.capacity * TicksPerSecond
    /\ admitted[NoKey] <= cfg.capacity

\* reached: more calls have returned true than the capacity
C32_OverAdmitted == admitted[NoKey] > cfg.capacity

\* reached: tokens below zero
C32_NegativeTokens == heap[1].tokens < 0

\* what survives the race: tokens never exceeds the capacity
C32_NeverAboveCapacity == heap[1].tokens <= cfg.capacity * TicksPerSecond

\* ------------------------------------------------------------ concurrent callers, real clock
\* time passes between the goroutines' steps
Tick ==
    /\ clock < MaxTime
    /\ clock' = clock + 1
    /\ UNCHANGED <<seqvars, convars>>

NextClocked == NextConc \/ Tick

\* the limiters of the three concurrency tests on the real clock, constructed
\* at instant 0; the GCRA rates are those with an emission interval of at
\* least one tick, as the test's 1000 per second
InitClocked ==
    /\ InitConc
    /\ cfg.kind \in {"leaky", "fixed", "gcra"}
    /\ cfg.kind = "gcra" => cfg.emission > 0

SpecClocked == InitClocked /\ [][NextClocked]_vars

\* every started call has returned, and there were at least burst-size many
AllReturned(n) ==
    /\ \A t \in Threads : th[t].pc = "idle"
    /\ calls[NoKey] >= n

\* the clock has not yet advanced by the time that frees one slot: 1 / rate
\* for the leaky bucket, the emission interval for GCRA, the end of the
\* construction window for the fixed window
NoSlotFreed ==
    CASE cfg.kind = "leaky" -> clock * cfg.rate < TicksPerSecond
      [] cfg.kind = "gcra"  -> clock < cfg.emission
      [] cfg.kind = "fixed" -> clock < cfg.window

InitClockedBuckets ==
    /\ InitConc
    /\ cfg.kind \in {"token", "leaky"}

SpecClockedBuckets == InitClockedBuckets /\ [][NextClocked]_vars

\* last_refill_at / last_update_at
Stamp(l) == IF l.kind = "token" THEN l.lastRefillAt ELSE l.lastUpdatedAt

\* C34: the clock is read under the limiter's lock, so under a non-decreasing
\* clock and any interleaving the reading a goroutine is about to apply is
\* never before the limiter's timestamp (the backward branch of refill /
\* update is not taken), and the timestamp never decreases.
C34_ReadingsInLockOrder ==
    /\ [](\A t \in Threads :
            th[t].pc = "lim_write" =>
                /\ limMu[1] = t
                /\ th[t].now >= Stamp(heap[1])
                /\ th[t].snap = heap[1])
    /\ [][Stamp(heap'[1]) >= Stamp(heap[1])]_vars

\* reached: the second call applied a later reading than the first, and a
\* third goroutine waits for the lock while the clock has moved on again
C34_Witness ==
    /\ calls[NoKey] = 2
    /\ Stamp(heap[1]) > 0
    /\ clock > Stamp(heap[1])
    /\ \E t, u \in Threads :
          /\ th[t].pc = "lim_lock"
          /\ limMu[1] = u
          /\ th[u].pc = "lim_unlock"

\* ------------------------------------------------------------ compaction
\* Expired entries stay in the physical queue only when fewer than half of
\* its entries are expired, which takes a limit of at least 3.
InitSlidingWide ==
    /\ SeqStart
    /\ \E n \in 0..(MaxCapacity + 1), w \in 0..MaxWindow :
          lim = NewSlidingLimiterWithClock(n, w, 0)

SpecSlidingWide == InitSlidingWide /\ [][NextSeq]_vars

\* the live sequence Q[head..], in order
LiveSeq(l) == SubSeq(l.q, l.head + 1, Len(l.q))

\* Allow as it would be without the compaction step
Uncompacted_Allow(l, now) ==
    LET cutoff == now - l.window
        r == [l EXCEPT !.head = expire(l.q, l.head, cutoff)]
    IN IF Len(r.q) - r.head + 1 > r.limit
         THEN [lim |-> r, ok |-> FALSE]
         ELSE [lim |-> [r EXCEPT !.q = Append(r.q, now)], ok |-> TRUE]

\* the limiter after the first i calls of hist, had compaction never run
RECURSIVE Uncompacted(_)
Uncompacted(i) ==
    IF i = 0 THEN hist[1].pre
    ELSE Uncompacted_Allow(Uncompacted(i - 1), hist[i].at).lim

\* head as call i's expiry loop left it, before compaction
HeadAdvanced(i) ==
    expire(hist[i].pre.q, hist[i].pre.head, hist[i].at - hist[i].pre.window)

CompactionDue(i) ==
    HeadAdvanced(i) > 0 /\ HeadAdvanced(i) * 2 >= Len(hist[i].pre.q)

\* C35: in every call, compaction has run exactly when head > 0 and
\* head * 2 >= len(Q) after head was advanced: then head is 0 on return and
\* the queue holds the entries that were live (plus the new one if admitted),
\* otherwise the physical queue keeps its prefix; and this call's and every
\* later call's decision and live sequence are those of a limiter that never
\* compacts.
C35_CompactionInvisible ==
    \A i \in Calls :
        LET pre == hist[i].pre
            live == SubSeq(pre.q, HeadAdvanced(i) + 1, Len(pre.q))
            added == IF hist[i].ok THEN <<hist[i].at>> ELSE << >>
        IN /\ CompactionDue(i) =>
                 /\ Post(i).head = 0
                 /\ Post(i).q = live \o added
           /\ ~CompactionDue(i) =>
                 /\ Post(i).head = HeadAdvanced(i)
                 /\ Post(i).q = pre.q \o added
           /\ hist[i].ok = Uncompacted_Allow(Uncompacted(i - 1), hist[i].at).ok
           /\ LiveSeq(Post(i)) = LiveSeq(Uncompacted(i))

\* reached: a compaction that kept a live entry (the queue <<0, 1>> at reading
\* 2 with window 1 becomes <<1>>), followed by a denied call
C35_Witness ==
    /\ Len(hist) >= 4
    /\ lim.window = 1 /\ lim.limit = 2
    /\ CompactionDue(3)
    /\ HeadAdvanced(3) = 1
    /\ Len(hist[3].pre.q) = 2
    /\ Post(3).q = <<1, 2>>
    /\ ~hist[4].ok
    /\ Uncompacted(4).head > 0

\* reached: the expiry loop advanced head and compaction did not run
C35_NotCompacted ==
    \E i \in Calls : HeadAdvanced(i) > 0 /\ ~CompactionDue(i)

\* ------------------------------------------------------------ reference model
\* The reference sliding window: the admitted timestamps so far, and a call
\* at now admitted iff fewer than limit of them are >= now - window.
\* RefAdmitted(i): the timestamps the reference has admitted among the first
\* i calls of hist (as a sequence, repetitions kept).
RefCount(S, now, window) == Cardinality({k \in 1..Len(S) : S[k] >= now - window})

RECURSIVE RefAdmitted(_)
RefAdmitted(i) ==
    IF i = 0 THEN << >>
    ELSE LET S == RefAdmitted(i - 1)
             now == hist[i].at
         IN IF RefCount(S, now, hist[1].pre.window) < hist[1].pre.limit
              THEN Append(S, now)
              ELSE S

RefAdmits(i) ==
    RefCount(RefAdmitted(i - 1), hist[i].at, hist[1].pre.window) < hist[1].pre.limit

Sorted(q) == \A k \in 1..(Len(q) - 1) : q[k] <= q[k + 1]

\* C36: under a non-decreasing clock SlidingLimiter.Allow takes on every call
\* the decision of the reference model, its live entries are the reference's
\* admitted timestamps that are >= now - window, and the queue is sorted.
C36_AgreesWithReference ==
    MonotoneClock =>
        /\ \A i \in Calls :
              /\ hist[i].ok = RefAdmits(i)
              /\ LiveSeq(Post(i)) =
                    SelectSeq(RefAdmitted(i),
                              LAMBDA e : e >= hist[i].at - hist[1].pre.window)
              /\ Sorted(Post(i).q)

\* reached: limit 2, window 2; calls at 0, 1, 1 give true, true, false; at 3
\* the admission of 0 has aged out while that of 1 still counts, so one call
\* is admitted
C36_Witness ==
    /\ Len(hist) = 4
    /\ MonotoneClock
    /\ lim.limit = 2 /\ lim.window = 2
    /\ hist[1].at = 0 /\ hist[2].at = 1 /\ hist[3].at = 1 /\ hist[4].at = 3
    /\ hist[1].ok /\ hist[2].ok /\ ~hist[3].ok /\ hist[4].ok
    /\ LiveSeq(lim) = <<1, 3>>

\* C37: at every SlidingLimiter.Allow return, whatever the calls and the
\* clock readings, 0 <= head <= len(Q), len(Q) - head <= limit and
\* len(Q) <= 2 * limit.
C37_QueueBounded ==
    \A i \in Calls :
        LET l == Post(i)
        IN /\ 0 <= l.head
           /\ l.head <= Len(l.q)
           /\ Len(l.q) - l.head <= l.limit
           /\ Len(l.q) <= 2 * l.limit

\* reached: limit 3 with four entries in the physical queue, the first of
\* them expired but not compacted away (head * 2 < len(Q)), after four calls
C37_Witness ==
    /\ Len(hist) = 4
    /\ lim.limit = 3
    /\ Len(lim.q) = 4
    /\ lim.head = 1

\* the refill of call j did not saturate: what it added fitted under capacity
Unsaturated(j) ==
    hist[j].pre.tokens + (hist[j].at - hist[j].pre.lastRefillAt) * hist[j].pre.rate
        <= hist[j].pre.capacity * TicksPerSecond

AdmittedUpTo(i) == Cardinality({j \in 1..i : hist[j].ok})

C39_EmissionAtLeastOneTick ==
    (cfg.rate > 0 /\ cfg.burst >= 1) =>
        /\ lim.emission >= 1
        /\ lim.limit = lim.emission * cfg.burst
        /\ \A j \in Calls : FrozenUpTo(j) => (hist[j].ok <=> j <= cfg.burst)

\* the same for the rates of at most one request per tick, which holds
C39_UpToOnePerTick ==
    (cfg.rate > 0 /\ cfg.rate <= TicksPerSecond /\ cfg.burst >= 1) =>
        /\ lim.emission >= 1
        /\ lim.limit = lim.emission * cfg.burst
        /\ \A j \in Calls : FrozenUpTo(j) => (hist[j].ok <=> j <= cfg.burst)

\* reached: rate above one request per tick, burst 2; emission and burst
\* tolerance are 0 and four calls at one instant are all admitted
C39_ZeroEmission ==
    /\ cfg.rate > TicksPerSecond
    /\ cfg.burst = 2
    /\ lim.emission = 0 /\ lim.limit = 0
    /\ Len(hist) = 4
    /\ FrozenUpTo(4)
    /\ \A j \in Calls : hist[j].ok

\* ------------------------------------------------------------ token.Registry, concurrent
\* Registry.Allow of package token by concurrent goroutines: the steps of the
\* registry (lock, lookup, construction, insertion, deferred unlock) are those
\* of RegLock .. RegUnlock; the limiter has no lock of its own, so its Allow is
\* the unsynchronised loads and stores of token_RefillLoad .. token_Take,
\* made while the registry's lock is held.
\* lim, ok := r.limiters[key]; if !ok { ... }
token_RegLookup(t) ==
    /\ th[t].pc = "reg_lookup"
    /\ th' = IF limiters[th[t].key] # 0
               THEN [th EXCEPT ![t].pc = "tok_refill_load",
                               ![t].obj = limiters[th[t].key]]
               ELSE Goto(t, "reg_new")
    /\ UNCHANGED <<clock, seqvars, cfg, heap, limMu, regMu, limiters, started,
                   created, mapped, calls, admitted>>

\* lim, _ = NewLimiter(r.capacity, r.rate)
token_RegNew(t) ==
    /\ th[t].pc = "reg_new"
    /\ heap' = Append(heap, token_NewLimiter(cfg.capacity, cfg.rate, clock).lim)
    /\ created' = [created EXCEPT ![th[t].key] = @ + 1]
    /\ th' = [th EXCEPT ![t].pc = "reg_insert", ![t].obj = Len(heap) + 1]
    /\ UNCHANGED <<clock, seqvars, cfg, limMu, regMu, limiters, started, mapped,
                   calls, admitted>>

\* r.limiters[key] = lim; return lim.Allow()
token_RegInsert(t) ==
    /\ th[t].pc = "reg_insert"
    /\ limiters' = [limiters EXCEPT ![th[t].key] = th[t].obj]
    /\ mapped' = [mapped EXCEPT ![th[t].key] = @ \cup {th[t].obj}]
    /\ th' = Goto(t, "tok_refill_load")
    /\ UNCHANGED <<clock, seqvars, cfg, heap, limMu, regMu, started, created,
                   calls, admitted>>

NextTokenRegistry ==
    \E t \in Threads :
        \/ \E k \in Keys : RegBegin(t, k)
        \/ RegLock(t) \/ token_RegLookup(t) \/ token_RegNew(t) \/ token_RegInsert(t)
        \/ token_RefillLoad(t) \/ token_RefillStore(t)
        \/ token_Test(t) \/ token_Take(t)
        \/ RegUnlock(t)

\* a registry constructed from a capacity and a rate that are not negative,
\* with any list of preloaded users; the clock frozen at 0
InitTokenRegistry ==
    /\ clock = 0
    /\ SeqIdle
    /\ regMu = 0
    /\ limMu = << >>
    /\ th = [t \in Threads |-> IdleThread]
    /\ started = 0
    /\ calls = [k \in Keys \cup {NoKey} |-> 0]
    /\ admitted = [k \in Keys \cup {NoKey} |-> 0]
    /\ \E c \in 0..MaxCapacity, r \in {0, MaxRate}, users \in SUBSET Keys :
          LET reg == token_NewRegistry(c, r, users).reg
          IN /\ cfg = [kind |-> "token_registry", capacity |-> c, rate |-> r]
             /\ heap = reg.heap
             /\ limiters = reg.limiters
             /\ created = [k \in Keys |-> IF k \in users THEN 1 ELSE 0]
             /\ mapped = [k \in Keys |-> IF k \in users THEN {reg.limiters[k]} ELSE {}]

SpecTokenRegistry == InitTokenRegistry /\ [][NextTokenRegistry]_vars

\* goroutine t is executing inside a limiter's Allow
InsideLimiter(t) ==
    th[t].pc \in {"tok_refill_load", "tok_refill_store", "tok_test", "tok_take"}

\* C40: whatever the interleaving of concurrent Registry.Allow calls, a
\* goroutine executing inside a limiter of the registry holds the registry's
\* lock (so at most one is inside any limiter), what it read from the limiter
\* is still what the limiter holds, and with the clock frozen each key has
\* admitted exactly min(calls decided for that key, capacity).
C40_RegistrySerializesLimiters ==
    /\ \A t \in Threads :
          InsideLimiter(t) =>
              /\ regMu = t
              /\ th[t].pc \in {"tok_refill_store", "tok_take"}
                    => th[t].snap.tokens = heap[th[t].obj].tokens
    /\ Cardinality({t \in Threads : InsideLimiter(t)}) <= 1
    /\ \A k \in Keys : admitted[k] = Min(calls[k], cfg.capacity)

\* reached: capacity 1; two calls for one key decided, one admitted, and a
\* goroutine for another key inside its limiter while another waits for the
\* registry's lock
C40_Witness ==
    /\ cfg.capacity = 1
    /\ \E k \in Keys : calls[k] = 2 /\ admitted[k] = 1
    /\ \E t, u \in Threads :
          /\ InsideLimiter(t)
          /\ calls[th[t].key] = 0
          /\ th[u].pc = "reg_lock"

====
